---- MODULE Spec2Model ----
(***************************************************************************)
(* Model of the GO-CLI task manager (src/main.go): the in-memory task     *)
(* collection TasksSlice, the file Tasks.json, and the interactive menu    *)
(* loop of main / addTask / showAllTask / deleteTask.                      *)
(*                                                                         *)
(* Text is modelled as a sequence of one-character strings, so that the    *)
(* conversions of the program (TrimSpace, ToUpper, Atoi, time.Parse, the   *)
(* JSON encoding) are computed and not assumed.                            *)
(***************************************************************************)
EXTENDS Integers, Sequences, FiniteSets, TLC

(***************************************************************************)
(* Bounds of the model.                                                    *)
(***************************************************************************)
\* largest collection the model builds (creates are cut off at this length)
MaxTasks == 2
\* largest number of failing file writes
MaxFail == 1
\* largest number of restarts of the program (SpecRestart only)
MaxRuns == 1

(***************************************************************************)
(* Text helpers: strings.TrimSpace, strings.ToUpper, strconv.Atoi.         *)
(***************************************************************************)
LowerCase == <<"a","b","c","d","e","f","g","h","i","j","k","l","m",
               "n","o","p","q","r","s","t","u","v","w","x","y","z">>
UpperCase == <<"A","B","C","D","E","F","G","H","I","J","K","L","M",
               "N","O","P","Q","R","S","T","U","V","W","X","Y","Z">>
DigitChars == <<"0","1","2","3","4","5","6","7","8","9">>
WhiteSpace == {" ", "\t", "\n", "\r"}

IsDigit(c) == \E i \in 1..10 : DigitChars[i] = c
DigitVal(c) == (CHOOSE i \in 1..10 : DigitChars[i] = c) - 1

ToUpperChar(c) ==
    IF \E i \in 1..26 : LowerCase[i] = c
    THEN UpperCase[CHOOSE i \in 1..26 : LowerCase[i] = c]
    ELSE c

ToLowerChar(c) ==
    IF \E i \in 1..26 : UpperCase[i] = c
    THEN LowerCase[CHOOSE i \in 1..26 : UpperCase[i] = c]
    ELSE c

\* a ToUpper that leaves the text as typed
ToUpperAsTyped(s) == s

\* strings.ToUpper
ToUpper(s) == [i \in 1..Len(s) |-> ToUpperChar(s[i])]

\* strings.TrimSpace: drops leading and trailing white space
TrimSpace(s) ==
    LET keep == {i \in 1..Len(s) : s[i] \notin WhiteSpace}
    IN  IF keep = {} THEN <<>>
        ELSE LET lo == CHOOSE i \in keep : \A j \in keep : i <= j
                 hi == CHOOSE i \in keep : \A j \in keep : j <= i
             IN  SubSeq(s, lo, hi)

AllDigits(s) == \A i \in 1..Len(s) : IsDigit(s[i])

RECURSIVE NumOf(_)
\* the value of a sequence of decimal digits
NumOf(s) ==
    IF s = <<>> THEN 0
    ELSE NumOf(SubSeq(s, 1, Len(s) - 1)) * 10 + DigitVal(s[Len(s)])

\* strconv.Atoi: optional sign, then at least one digit, nothing else
Atoi(s) ==
    LET signed == Len(s) > 0 /\ s[1] \in {"+", "-"}
        body == IF signed THEN Tail(s) ELSE s
    IN  IF Len(body) = 0 \/ ~AllDigits(body)
        THEN [ok |-> FALSE, val |-> 0]
        ELSE [ok |-> TRUE,
              val |-> IF signed /\ s[1] = "-" THEN 0 - NumOf(body) ELSE NumOf(body)]

RECURSIVE PadNum(_, _)
\* n written in decimal with at least w digits, zero padded
PadNum(n, w) ==
    IF w <= 1 /\ n < 10 THEN <<DigitChars[n + 1]>>
    ELSE Append(PadNum(n \div 10, w - 1), DigitChars[(n % 10) + 1])

(***************************************************************************)
(* time.Parse("Jan 02, 2006", text), as the standard library parses it.    *)
(***************************************************************************)
shortMonthNames == << <<"J","a","n">>, <<"F","e","b">>, <<"M","a","r">>,
                      <<"A","p","r">>, <<"M","a","y">>, <<"J","u","n">>,
                      <<"J","u","l">>, <<"A","u","g">>, <<"S","e","p">>,
                      <<"O","c","t">>, <<"N","o","v">>, <<"D","e","c">> >>

ToLower(s) == [i \in 1..Len(s) |-> ToLowerChar(s[i])]

Drop(s, n) == SubSeq(s, n + 1, Len(s))

\* cutspace: drops the leading blanks
CutSpace(s) ==
    LET keep == {i \in 1..Len(s) : s[i] # " "}
    IN  IF keep = {} THEN <<>>
        ELSE Drop(s, (CHOOSE i \in keep : \A j \in keep : i <= j) - 1)

IsLeap(y) == y % 4 = 0 /\ (y % 100 # 0 \/ y % 400 = 0)

daysIn(m, y) ==
    IF m = 2 THEN (IF IsLeap(y) THEN 29 ELSE 28)
    ELSE IF m \in {4, 6, 9, 11} THEN 30 ELSE 31

BadDate == [ok |-> FALSE, y |-> 0, m |-> 0, d |-> 0]

\* a blank of the layout matches any run of blanks, or the end of the text
SkipBlank(v) == IF Len(v) > 0 /\ v[1] # " " THEN [ok |-> FALSE, rest |-> v]
                ELSE [ok |-> TRUE, rest |-> CutSpace(v)]

ParseDate(text) ==
    LET mIdx == {i \in 1..12 : Len(text) >= 3 /\
                    ToLower(SubSeq(text, 1, 3)) = ToLower(shortMonthNames[i])}
    IN  IF mIdx = {} THEN BadDate ELSE
        LET month == CHOOSE i \in mIdx : TRUE
            s1 == SkipBlank(Drop(text, 3))
        IN  IF ~s1.ok THEN BadDate ELSE
            LET v1 == s1.rest
            IN  IF ~(Len(v1) >= 2 /\ IsDigit(v1[1]) /\ IsDigit(v1[2])) THEN BadDate ELSE
                LET day == NumOf(SubSeq(v1, 1, 2))
                    v2 == Drop(v1, 2)
                IN  IF ~(Len(v2) >= 1 /\ v2[1] = ",") THEN BadDate ELSE
                    LET s3 == SkipBlank(Drop(v2, 1))
                    IN  IF ~s3.ok THEN BadDate ELSE
                        LET v3 == s3.rest
                        IN  IF ~(Len(v3) >= 4 /\ AllDigits(SubSeq(v3, 1, 4))) THEN BadDate
                            ELSE IF Len(v3) > 4 THEN BadDate
                            ELSE LET year == NumOf(SubSeq(v3, 1, 4))
                                 IN  IF day < 1 \/ day > daysIn(month, year) THEN BadDate
                                     ELSE [ok |-> TRUE, y |-> year, m |-> month, d |-> day]

(***************************************************************************)
(* The Task record and the JSON encoding of the collection                 *)
(* (json.MarshalIndent / json.Unmarshal with the struct tags of Task).     *)
(* A time is a calendar date, a second and nanosecond of the day and a     *)
(* location; the monotonic clock reading of time.Now() is not part of it.  *)
(***************************************************************************)
Task(id, title, assigned, status, due, created) ==
    [ID |-> id, Title |-> title, AssignedTo |-> assigned, Status |-> status,
     DueDate |-> due, TimeCreated |-> created]

MkTime(y, m, d, sec, nsec, loc) ==
    [y |-> y, m |-> m, d |-> d, sec |-> sec, nsec |-> nsec, loc |-> loc]

\* the zero time.Time, which a failed decoding leaves in a field
ZeroTime == MkTime(1, 1, 1, 0, 0, "UTC")

\* the date time.Parse returns: midnight UTC
DateOf(p) == MkTime(p.y, p.m, p.d, 0, 0, "UTC")

\* the day the program runs on, and the offset of its local time zone
Today == [y |-> 2026, m |-> 11, d |-> 1]
LocalZone == <<"+","0","1",":","0","0">>

\* the instants at which the model reads the clock
Instants == {0}

\* time.Now(), t half seconds after the first half second of the day, in the local zone
NowAt(t) ==
    MkTime(Today.y, Today.m, Today.d, (t + 1) \div 2, ((t + 1) % 2) * 500000000, "Local")

RECURSIVE TrimZeros(_)
TrimZeros(s) ==
    IF s # <<>> /\ s[Len(s)] = "0" THEN TrimZeros(SubSeq(s, 1, Len(s) - 1)) ELSE s

RECURSIVE Pow10(_)
Pow10(n) == IF n = 0 THEN 1 ELSE 10 * Pow10(n - 1)

\* a MarshalTime that writes whole seconds only
MarshalTimeSeconds(t) ==
    PadNum(t.y, 4) \o <<"-">> \o PadNum(t.m, 2) \o <<"-">> \o PadNum(t.d, 2)
    \o <<"T">> \o PadNum(t.sec \div 3600, 2) \o <<":">>
    \o PadNum((t.sec % 3600) \div 60, 2) \o <<":">> \o PadNum(t.sec % 60, 2)
    \o (IF t.loc = "UTC" THEN <<"Z">> ELSE LocalZone)

\* Time.MarshalJSON: RFC 3339 with the nanoseconds, trailing zeros dropped
MarshalTime(t) ==
    PadNum(t.y, 4) \o <<"-">> \o PadNum(t.m, 2) \o <<"-">> \o PadNum(t.d, 2)
    \o <<"T">> \o PadNum(t.sec \div 3600, 2) \o <<":">>
    \o PadNum((t.sec % 3600) \div 60, 2) \o <<":">> \o PadNum(t.sec % 60, 2)
    \o (IF t.nsec = 0 THEN <<>> ELSE <<".">> \o TrimZeros(PadNum(t.nsec, 9)))
    \o (IF t.loc = "UTC" THEN <<"Z">> ELSE LocalZone)

\* Time.UnmarshalJSON
UnmarshalTime(s) ==
    LET shape == /\ Len(s) >= 20
                 /\ AllDigits(SubSeq(s, 1, 4)) /\ s[5] = "-"
                 /\ AllDigits(SubSeq(s, 6, 7)) /\ s[8] = "-"
                 /\ AllDigits(SubSeq(s, 9, 10)) /\ s[11] = "T"
                 /\ AllDigits(SubSeq(s, 12, 13)) /\ s[14] = ":"
                 /\ AllDigits(SubSeq(s, 15, 16)) /\ s[17] = ":"
                 /\ AllDigits(SubSeq(s, 18, 19))
    IN  IF ~shape THEN [ok |-> FALSE, t |-> ZeroTime] ELSE
        LET rest == Drop(s, 19)
            fracEnd == IF rest[1] = "."
                       THEN CHOOSE n \in 1..Len(rest) :
                               /\ \A i \in 2..n : IsDigit(rest[i])
                               /\ (n = Len(rest) \/ ~IsDigit(rest[n + 1]))
                       ELSE 0
            frac == IF fracEnd >= 2 THEN SubSeq(rest, 2, fracEnd) ELSE <<>>
            zone == Drop(rest, fracEnd)
            y == NumOf(SubSeq(s, 1, 4))
            m == NumOf(SubSeq(s, 6, 7))
            d == NumOf(SubSeq(s, 9, 10))
            sec == NumOf(SubSeq(s, 12, 13)) * 3600 + NumOf(SubSeq(s, 15, 16)) * 60
                   + NumOf(SubSeq(s, 18, 19))
        IN  IF \/ (fracEnd # 0 /\ (frac = <<>> \/ Len(frac) > 9))
               \/ m < 1 \/ m > 12 \/ d < 1 \/ d > daysIn(m, y) \/ sec >= 86400
               \/ (zone # <<"Z">> /\ ~(Len(zone) = 6 /\ zone[1] \in {"+", "-"}))
            THEN [ok |-> FALSE, t |-> ZeroTime]
            ELSE [ok |-> TRUE,
                  t |-> MkTime(y, m, d, sec,
                               IF frac = <<>> THEN 0
                               ELSE NumOf(frac) * Pow10(9 - Len(frac)),
                               IF zone = <<"Z">> THEN "UTC"
                               ELSE IF zone = LocalZone THEN "Local" ELSE "Fixed")]

RECURSIVE Escape(_)
\* the JSON string escapes of the characters the model uses
Escape(s) ==
    IF s = <<>> THEN <<>>
    ELSE (IF s[1] \in {"\"", "\\"} THEN <<"\\", s[1]>> ELSE <<s[1]>>) \o Escape(Tail(s))

RECURSIVE Unescape(_)
Unescape(s) ==
    IF s = <<>> THEN <<>>
    ELSE IF s[1] = "\\" /\ Len(s) >= 2 THEN <<s[2]>> \o Unescape(Drop(s, 2))
    ELSE <<s[1]>> \o Unescape(Tail(s))

JNum(n) == [t |-> "num", v |-> IF n < 0 THEN <<"-">> \o PadNum(0 - n, 1) ELSE PadNum(n, 1)]
JStr(s) == [t |-> "str", v |-> Escape(s)]
JBool(b) == [t |-> "bool", v |-> IF b THEN <<"t","r","u","e">> ELSE <<"f","a","l","s","e">>]

\* one JSON object: the fields of Task in declaration order under their tags
MarshalTask(task) ==
    << [k |-> "ID", v |-> JNum(task.ID)],
       [k |-> "Title", v |-> JStr(task.Title)],
       [k |-> "AssignedTo", v |-> JStr(task.AssignedTo)],
       [k |-> "Status", v |-> JBool(task.Status)],
       [k |-> "DueDate", v |-> JStr(MarshalTime(task.DueDate))],
       [k |-> "TimeCreated", v |-> JStr(MarshalTime(task.TimeCreated))] >>

\* json.MarshalIndent(TasksSlice, "", "  "): the array of the objects, in order
Marshal(tasks) == [i \in 1..Len(tasks) |-> MarshalTask(tasks[i])]

\* the value of key k of type ty in a JSON object (the last one wins), or none
Field(obj, k, ty) ==
    LET hits == {i \in 1..Len(obj) : obj[i].k = k /\ obj[i].v.t = ty}
    IN  IF hits = {} THEN [ok |-> FALSE, v |-> <<>>]
        ELSE [ok |-> TRUE, v |-> obj[CHOOSE i \in hits : \A j \in hits : j <= i].v.v]

UnmarshalTask(obj) ==
    LET id == Field(obj, "ID", "num")
        title == Field(obj, "Title", "str")
        assigned == Field(obj, "AssignedTo", "str")
        status == Field(obj, "Status", "bool")
        due == Field(obj, "DueDate", "str")
        created == Field(obj, "TimeCreated", "str")
    IN  Task(IF id.ok THEN Atoi(id.v).val ELSE 0,
             IF title.ok THEN Unescape(title.v) ELSE <<>>,
             IF assigned.ok THEN Unescape(assigned.v) ELSE <<>>,
             status.ok /\ status.v = <<"t","r","u","e">>,
             IF due.ok THEN UnmarshalTime(Unescape(due.v)).t ELSE ZeroTime,
             IF created.ok THEN UnmarshalTime(Unescape(created.v)).t ELSE ZeroTime)

\* json.Unmarshal(data, &TasksSlice) for a JSON array of objects
Unmarshal(data) == [i \in 1..Len(data) |-> UnmarshalTask(data[i])]

\* the JSON type each field of Task decodes from
FieldType == [ID |-> "num", Title |-> "str", AssignedTo |-> "str",
              Status |-> "bool", DueDate |-> "str", TimeCreated |-> "str"]

\* json.Unmarshal returns an error: some value has the wrong type for its
\* field, or a time does not parse; the other fields are decoded all the same
UnmarshalError(data) ==
    \E i \in 1..Len(data) : \E j \in 1..Len(data[i]) :
        LET p == data[i][j]
        IN  /\ p.k \in DOMAIN FieldType
            /\ \/ p.v.t # FieldType[p.k]
               \/ /\ p.k \in {"DueDate", "TimeCreated"}
                  /\ ~UnmarshalTime(Unescape(p.v.v)).ok

(***************************************************************************)
(* The file Tasks.json: absent, or holding the JSON text last written.     *)
(***************************************************************************)
NoFile == [kind |-> "absent", data |-> <<>>]
JsonFile(data) == [kind |-> "json", data |-> data]

\* what loadTasks leaves in TasksSlice when it runs on an empty TasksSlice
LoadOf(f) == IF f.kind = "json" THEN Unmarshal(f.data) ELSE <<>>

\* os.WriteFile("Tasks.json", data, 0644): the file is replaced; when the
\* write fails the file is either untouched (it could not be opened) or was
\* truncated on opening and holds no complete JSON text
WriteOutcomes == {"ok", "denied", "partial"}
\* a WriteFile that removes the file when the write fails
WriteFileRemoves(f, data, outcome) ==
    IF outcome = "ok" THEN JsonFile(data) ELSE [kind |-> "absent", data |-> <<>>]

WriteFile(f, data, outcome) ==
    IF outcome = "ok" THEN JsonFile(data)
    ELSE IF outcome = "denied" THEN f
    ELSE [kind |-> "garbage", data |-> <<>>]

(***************************************************************************)
(* The lines the user can type.  A line is the text ReadString('\n')       *)
(* returns: up to and including the newline, or what is left at the end    *)
(* of the input.                                                           *)
(***************************************************************************)
Line(s) == s \o <<"\n">>

MenuInputs ==
    { Line(<<"a">>), Line(<<"A">>), Line(<<" ","v"," ">>), Line(<<"V">>),
      Line(<<"d">>), Line(<<"D">>), Line(<<"q">>), <<"Q">>,
      Line(<<"x">>), Line(<<"1">>), Line(<<"A","D">>), Line(<<>>), <<>> }

TitleInputs == { <<>>, Line(<<" ","a","\"","b"," ">>), Line(<<"A","\"","B">>) }

AssignedInputs == { Line(<<"b","o">>), Line(<<" ","B","O"," ">>) }

DateInputs ==
    { Line(<<"D","e","c"," ","2","5",","," ","2","0","2","4">>),
      Line(<<" ","d","e","c"," "," ","2","5",","," "," ","2","0","2","4"," ">>),
      Line(<<"F","e","b"," ","2","9",","," ","2","0","2","3">>),
      Line(<<"D","e","c"," ","5",","," ","2","0","2","4">>),
      Line(<<"D","e","c"," ","2","5",",","2","0","2","4">>),
      Line(<<"D","e","c"," ","2","5",","," ","2","0","2","4","x">>),
      Line(<<"2","0","2","4","-","1","2","-","2","5">>),
      Line(<<"b","a","d","-","d","a","t","e">>),
      <<>> }

YesNoInputs ==
    { Line(<<"y">>), Line(<<" ","Y">>), Line(<<"n">>), <<"N">>,
      Line(<<"y","e","s">>), Line(<<>>), <<>> }

AckInputs == { Line(<<>>), Line(<<"q">>), <<>> }

DeleteInputs ==
    { Line(PadNum(n, 1)) : n \in 0..(MaxTasks + 1) }
    \cup { Line(<<"q">>), Line(<<" ","Q"," ">>), Line(<<"+","2">>), Line(<<"0","1">>),
           Line(<<"-","1">>), Line(<<"x">>), Line(<<"1"," ","2">>), Line(<<"1",".","0">>),
           Line(<<>>), <<>> }

\* the inputs of the scenario "buy milk" / "walk dog"
BuyMilk == Line(<<"b","u","y"," ","m","i","l","k">>)
WalkDog == Line(<<"w","a","l","k"," ","d","o","g">>)
Dec25 == Line(<<"D","e","c"," ","2","5",","," ","2","0","2","4">>)
BadDateLine == Line(<<"b","a","d","-","d","a","t","e">>)
ScenarioTitles == {BuyMilk, WalkDog}
ScenarioAssigned == {Line(<<>>)}

\* the conversions the program applies to the lines, computed once per line
Lines == MenuInputs \cup TitleInputs \cup AssignedInputs \cup YesNoInputs \cup DeleteInputs
         \cup ScenarioTitles \cup ScenarioAssigned
Upper == [l \in Lines |-> ToUpper(TrimSpace(l))]
Number == [l \in DeleteInputs |-> Atoi(TrimSpace(l))]
Parsed == [l \in DateInputs |-> ParseDate(TrimSpace(l))]

(***************************************************************************)
(* State.                                                                  *)
(***************************************************************************)
VARIABLES
    TasksSlice,    \* the collection, in display order
    file,          \* the file Tasks.json
    pc,            \* where the program waits for input
    taskTitle,     \* addTask: the title read in this round
    taskAssigned,  \* addTask: the assignee read in this round
    out,           \* the feedback message the last step printed, "" if none
    saved,         \* how the saveTask call of the last step went, "none" if it made none
    fails,         \* the file writes that have failed so far
    run,           \* how often the program has been restarted
    prevTasks,     \* from a restart to the first menu input: the collection the
                   \* previous run ended with
    maxLen,        \* history: the largest length the collection has had
    addedInVisit        \* history: a task was created since addTask was entered

vars == <<TasksSlice, file, pc, taskTitle, taskAssigned, out, saved, fails, run, prevTasks,
          maxLen, addedInVisit>>

\* the states of the menu controller
AddingPcs == {"AddTitle", "AddAssigned", "AddDueDate", "AddAgain"}
State ==
    IF pc \in AddingPcs THEN "AddingTask"
    ELSE pc

Init ==
    /\ TasksSlice = <<>>
    /\ file = NoFile
    /\ pc = "start"
    /\ taskTitle = <<>>
    /\ taskAssigned = <<>>
    /\ out = ""
    /\ saved = "none"
    /\ fails = 0
    /\ run = 0
    /\ prevTasks = <<>>
    /\ maxLen = 0
    /\ addedInVisit = FALSE

Max(a, b) == IF a >= b THEN a ELSE b

\* loadTasks: a file that cannot be read or decoded leaves TasksSlice as it is
loadTasks ==
    /\ pc = "start"
    /\ TasksSlice' = IF file.kind = "json" THEN Unmarshal(file.data) ELSE TasksSlice
    /\ pc' = "MainMenu"
    /\ maxLen' = Max(maxLen, Len(TasksSlice'))
    /\ UNCHANGED <<file, taskTitle, taskAssigned, out, saved, fails, run, prevTasks, addedInVisit>>

\* Tasks.json as a process may find it: absent, not JSON at all, or a JSON
\* array whose element has a text where the number of ID belongs
Garbage == [kind |-> "garbage", data |-> <<>>]
WrongShape == JsonFile(<< <<[k |-> "ID", v |-> JStr(<<"x">>)],
                            [k |-> "Title", v |-> JStr(<<"A">>)]>> >>)
StartFiles == {NoFile, Garbage, WrongShape}

InitLoad ==
    /\ TasksSlice = <<>>
    /\ file \in StartFiles
    /\ pc = "start"
    /\ taskTitle = <<>>
    /\ taskAssigned = <<>>
    /\ out = ""
    /\ saved = "none"
    /\ fails = 0
    /\ run = 0
    /\ prevTasks = <<>>
    /\ maxLen = 0
    /\ addedInVisit = FALSE

\* saveTask: encode the collection and write it; the error of the write is dropped
saveTask(tasks, outcome) ==
    /\ outcome \in WriteOutcomes
    /\ outcome # "ok" => fails < MaxFail
    /\ file' = WriteFile(file, Marshal(tasks), outcome)
    /\ saved' = outcome
    /\ fails' = IF outcome = "ok" THEN fails ELSE fails + 1

NoSave == saved' = "none" /\ UNCHANGED <<file, fails>>

(***************************************************************************)
(* main: the menu.                                                         *)
(***************************************************************************)
Choice(line) == Upper[line]

WrongInput == "Wrong Input..."

MainA(line) ==
    /\ pc = "MainMenu"
    /\ Choice(line) = <<"A">>
    /\ pc' = "AddTitle"
    /\ out' = ""
    /\ NoSave
    /\ prevTasks' = <<>>
    /\ addedInVisit' = FALSE
    /\ UNCHANGED <<TasksSlice, taskTitle, taskAssigned, run, maxLen>>

\* a view that puts the collection in reverse order to show it
MainVReverses(line) ==
    /\ pc = "MainMenu"
    /\ Choice(line) = <<"V">>
    /\ pc' = "ListingTasks"
    /\ out' = ""
    /\ NoSave
    /\ prevTasks' = <<>>
    /\ TasksSlice' = [i \in 1..Len(TasksSlice) |-> TasksSlice[Len(TasksSlice) + 1 - i]]
    /\ UNCHANGED <<taskTitle, taskAssigned, run, maxLen, addedInVisit>>

MainV(line) ==
    /\ pc = "MainMenu"
    /\ Choice(line) = <<"V">>
    /\ pc' = "ListingTasks"
    /\ out' = ""
    /\ NoSave
    /\ prevTasks' = <<>>
    /\ UNCHANGED <<TasksSlice, taskTitle, taskAssigned, run, maxLen, addedInVisit>>

MainQ(line) ==
    /\ pc = "MainMenu"
    /\ Choice(line) = <<"Q">>
    /\ pc' = "Quitting"
    /\ out' = "Good bye!!!"
    /\ NoSave
    /\ prevTasks' = <<>>
    /\ UNCHANGED <<TasksSlice, taskTitle, taskAssigned, run, maxLen, addedInVisit>>

\* a MainD that enters the delete flow whatever the collection holds
MainDNoGuard(line) ==
    /\ pc = "MainMenu"
    /\ Choice(line) = <<"D">>
    /\ pc' = "DeletingTask"
    /\ out' = ""
    /\ NoSave
    /\ prevTasks' = <<>>
    /\ UNCHANGED <<TasksSlice, taskTitle, taskAssigned, run, maxLen, addedInVisit>>

MainD(line) ==
    /\ pc = "MainMenu"
    /\ Choice(line) = <<"D">>
    /\ IF Len(TasksSlice) > 0
       THEN pc' = "DeletingTask" /\ out' = ""
       ELSE pc' = "MainMenu" /\ out' = WrongInput
    /\ NoSave
    /\ prevTasks' = <<>>
    /\ UNCHANGED <<TasksSlice, taskTitle, taskAssigned, run, maxLen, addedInVisit>>

MainDefault(line) ==
    /\ pc = "MainMenu"
    /\ Choice(line) \notin {<<"A">>, <<"V">>, <<"Q">>, <<"D">>}
    /\ pc' = "MainMenu"
    /\ out' = WrongInput
    /\ NoSave
    /\ prevTasks' = <<>>
    /\ UNCHANGED <<TasksSlice, taskTitle, taskAssigned, run, maxLen, addedInVisit>>

\* showAllTask / pressAnyButton: any line returns to the menu
Acknowledge(line) ==
    /\ pc = "ListingTasks"
    /\ pc' = "MainMenu"
    /\ out' = ""
    /\ NoSave
    /\ UNCHANGED <<TasksSlice, taskTitle, taskAssigned, run, prevTasks, maxLen, addedInVisit>>

(***************************************************************************)
(* addTask.                                                                *)
(***************************************************************************)
ReadTitle(line) ==
    /\ pc = "AddTitle"
    /\ taskTitle' = Upper[line]
    /\ pc' = "AddAssigned"
    /\ out' = ""
    /\ NoSave
    /\ UNCHANGED <<TasksSlice, taskAssigned, run, prevTasks, maxLen, addedInVisit>>

ReadAssigned(line) ==
    /\ pc = "AddAssigned"
    /\ taskAssigned' = Upper[line]
    /\ pc' = "AddDueDate"
    /\ out' = ""
    /\ NoSave
    /\ UNCHANGED <<TasksSlice, taskTitle, run, prevTasks, maxLen, addedInVisit>>

\* a newID that never hands an id out twice
newIDFresh(tasks) == maxLen + 1

\* a newID that follows the id of the last task
newIDAfterLast(tasks) == IF tasks = <<>> THEN 1 ELSE tasks[Len(tasks)].ID + 1

\* a newID that counts from 0
newIDFromZero(tasks) == Len(tasks)

\* the id of the next task
newID(tasks) == Len(tasks) + 1

\* an AddTaskWrongFormat that returns to the menu instead of starting over
AddTaskWrongFormatReturn(line) ==
    /\ pc = "AddDueDate"
    /\ ~Parsed[line].ok
    /\ pc' = "MainMenu"
    /\ out' = "Wrong format! Try again."
    /\ taskTitle' = <<>>
    /\ taskAssigned' = <<>>
    /\ NoSave
    /\ UNCHANGED <<TasksSlice, run, prevTasks, maxLen, addedInVisit>>

\* the due date does not parse: the round starts over
AddTaskWrongFormat(line) ==
    /\ pc = "AddDueDate"
    /\ ~Parsed[line].ok
    /\ pc' = "AddTitle"
    /\ out' = "Wrong format! Try again."
    /\ taskTitle' = <<>>
    /\ taskAssigned' = <<>>
    /\ NoSave
    /\ UNCHANGED <<TasksSlice, run, prevTasks, maxLen, addedInVisit>>

\* the due date parses: the task is appended and the collection saved
AddTaskCreate(line, now, outcome) ==
    /\ pc = "AddDueDate"
    /\ Parsed[line].ok
    /\ Len(TasksSlice) < MaxTasks
    /\ LET dueDate == DateOf(Parsed[line])
           newTask == Task(newID(TasksSlice), taskTitle, taskAssigned, FALSE,
                           dueDate, NowAt(now))
       IN  /\ TasksSlice' = Append(TasksSlice, newTask)
           /\ saveTask(TasksSlice', outcome)
    /\ pc' = "AddAgain"
    /\ out' = "Task added successfully!"
    /\ taskTitle' = <<>>
    /\ taskAssigned' = <<>>
    /\ maxLen' = Max(maxLen, Len(TasksSlice'))
    /\ addedInVisit' = TRUE
    /\ UNCHANGED <<run, prevTasks>>

AddAgainYes(line) ==
    /\ pc = "AddAgain"
    /\ Choice(line) = <<"Y">>
    /\ pc' = "AddTitle"
    /\ out' = ""
    /\ NoSave
    /\ UNCHANGED <<TasksSlice, taskTitle, taskAssigned, run, prevTasks, maxLen, addedInVisit>>

AddAgainNo(line) ==
    /\ pc = "AddAgain"
    /\ Choice(line) = <<"N">>
    /\ pc' = "MainMenu"
    /\ out' = ""
    /\ NoSave
    /\ addedInVisit' = FALSE
    /\ UNCHANGED <<TasksSlice, taskTitle, taskAssigned, run, prevTasks, maxLen>>

\* an add-again prompt that takes every answer but Y for N
AddAgainOtherLeaves(line) ==
    /\ pc = "AddAgain"
    /\ Choice(line) \notin {<<"Y">>, <<"N">>}
    /\ pc' = "MainMenu"
    /\ out' = ""
    /\ NoSave
    /\ UNCHANGED <<TasksSlice, taskTitle, taskAssigned, run, prevTasks, maxLen, addedInVisit>>

AddAgainOther(line) ==
    /\ pc = "AddAgain"
    /\ Choice(line) \notin {<<"Y">>, <<"N">>}
    /\ pc' = "AddAgain"
    /\ out' = "Respond with Y or N only!"
    /\ NoSave
    /\ UNCHANGED <<TasksSlice, taskTitle, taskAssigned, run, prevTasks, maxLen, addedInVisit>>

(***************************************************************************)
(* deleteTask.                                                             *)
(***************************************************************************)
\* an indexToDelete that takes the id for the position
indexToDeleteByPosition(tasks, id) == IF id \in 1..Len(tasks) THEN id ELSE 0

\* an indexToDelete that keeps the last task with the id (no break in the scan)
indexToDeleteLast(tasks, id) ==
    LET hits == {i \in 1..Len(tasks) : tasks[i].ID = id}
    IN  IF hits = {} THEN 0 ELSE CHOOSE i \in hits : \A j \in hits : j <= i

\* the position of the first task with this id, 0 if there is none
\* (the code counts positions from 0 and uses -1 for none)
indexToDelete(tasks, id) ==
    LET hits == {i \in 1..Len(tasks) : tasks[i].ID = id}
    IN  IF hits = {} THEN 0 ELSE CHOOSE i \in hits : \A j \in hits : i <= j

\* a removal that renumbers the tasks behind the removed one
RemoveAtRenumbers(tasks, i) ==
    [j \in 1..(Len(tasks) - 1) |->
        IF j < i THEN tasks[j] ELSE [tasks[j + 1] EXCEPT !.ID = @ - 1]]

\* append(TasksSlice[:i], TasksSlice[i+1:]...)
RemoveAt(tasks, i) == SubSeq(tasks, 1, i - 1) \o SubSeq(tasks, i + 1, Len(tasks))

\* a DeleteQuit that ends the program
DeleteQuitExit(line) ==
    /\ pc = "DeletingTask"
    /\ Choice(line) = <<"Q">>
    /\ pc' = "Quitting"
    /\ out' = ""
    /\ NoSave
    /\ UNCHANGED <<TasksSlice, taskTitle, taskAssigned, run, prevTasks, maxLen, addedInVisit>>

DeleteQuit(line) ==
    /\ pc = "DeletingTask"
    /\ Choice(line) = <<"Q">>
    /\ pc' = "MainMenu"
    /\ out' = ""
    /\ NoSave
    /\ UNCHANGED <<TasksSlice, taskTitle, taskAssigned, run, prevTasks, maxLen, addedInVisit>>

DeleteInvalid(line) ==
    /\ pc = "DeletingTask"
    /\ Choice(line) # <<"Q">>
    /\ ~Number[line].ok
    /\ pc' = "DeletingTask"
    /\ out' = "Invalid! Enter a number."
    /\ NoSave
    /\ UNCHANGED <<TasksSlice, taskTitle, taskAssigned, run, prevTasks, maxLen, addedInVisit>>

DeleteNotFound(line) ==
    /\ pc = "DeletingTask"
    /\ Choice(line) # <<"Q">>
    /\ Number[line].ok
    /\ indexToDelete(TasksSlice, Number[line].val) = 0
    /\ pc' = "DeletingTask"
    /\ out' = "Task not found!"
    /\ NoSave
    /\ UNCHANGED <<TasksSlice, taskTitle, taskAssigned, run, prevTasks, maxLen, addedInVisit>>

\* a DeleteFound that does not call saveTask
DeleteFoundNoSave(line, outcome) ==
    /\ pc = "DeletingTask"
    /\ Choice(line) # <<"Q">>
    /\ Number[line].ok
    /\ indexToDelete(TasksSlice, Number[line].val) # 0
    /\ outcome = "ok"
    /\ TasksSlice' = RemoveAt(TasksSlice, indexToDelete(TasksSlice, Number[line].val))
    /\ NoSave
    /\ out' = "Task deleted!"
    /\ pc' = IF Len(TasksSlice') = 0 THEN "MainMenu" ELSE "DeletingTask"
    /\ UNCHANGED <<taskTitle, taskAssigned, run, prevTasks, maxLen, addedInVisit>>

\* a DeleteFound that stays in the loop when the collection is empty
DeleteFoundStay(line, outcome) ==
    /\ pc = "DeletingTask"
    /\ Choice(line) # <<"Q">>
    /\ Number[line].ok
    /\ indexToDelete(TasksSlice, Number[line].val) # 0
    /\ TasksSlice' = RemoveAt(TasksSlice, indexToDelete(TasksSlice, Number[line].val))
    /\ saveTask(TasksSlice', outcome)
    /\ out' = "Task deleted!"
    /\ pc' = "DeletingTask"
    /\ UNCHANGED <<taskTitle, taskAssigned, run, prevTasks, maxLen, addedInVisit>>

DeleteFound(line, outcome) ==
    /\ pc = "DeletingTask"
    /\ Choice(line) # <<"Q">>
    /\ Number[line].ok
    /\ indexToDelete(TasksSlice, Number[line].val) # 0
    /\ TasksSlice' = RemoveAt(TasksSlice, indexToDelete(TasksSlice, Number[line].val))
    /\ saveTask(TasksSlice', outcome)
    /\ out' = "Task deleted!"
    /\ pc' = IF Len(TasksSlice') = 0 THEN "MainMenu" ELSE "DeletingTask"
    /\ UNCHANGED <<taskTitle, taskAssigned, run, prevTasks, maxLen, addedInVisit>>

(***************************************************************************)
(* The program is started again after it has ended.                        *)
(***************************************************************************)
Restart ==
    /\ pc = "Quitting"
    /\ run < MaxRuns
    /\ run' = run + 1
    /\ prevTasks' = TasksSlice
    /\ TasksSlice' = <<>>
    /\ pc' = "start"
    /\ out' = ""
    /\ saved' = "none"
    /\ UNCHANGED <<file, fails, taskTitle, taskAssigned, maxLen, addedInVisit>>

(***************************************************************************)
(* Specifications: one run of the program, and runs with restarts.         *)
(***************************************************************************)
Next ==
    \/ loadTasks
    \/ \E line \in MenuInputs : MainA(line)
    \/ \E line \in MenuInputs : MainV(line)
    \/ \E line \in MenuInputs : MainQ(line)
    \/ \E line \in MenuInputs : MainD(line)
    \/ \E line \in MenuInputs : MainDefault(line)
    \/ \E line \in AckInputs : Acknowledge(line)
    \/ \E line \in TitleInputs : ReadTitle(line)
    \/ \E line \in AssignedInputs : ReadAssigned(line)
    \/ \E line \in DateInputs : AddTaskWrongFormat(line)
    \/ \E line \in DateInputs, now \in Instants, outcome \in WriteOutcomes :
          AddTaskCreate(line, now, outcome)
    \/ \E line \in YesNoInputs : AddAgainYes(line)
    \/ \E line \in YesNoInputs : AddAgainNo(line)
    \/ \E line \in YesNoInputs : AddAgainOther(line)
    \/ \E line \in DeleteInputs : DeleteQuit(line)
    \/ \E line \in DeleteInputs : DeleteInvalid(line)
    \/ \E line \in DeleteInputs : DeleteNotFound(line)
    \/ \E line \in DeleteInputs, outcome \in WriteOutcomes : DeleteFound(line, outcome)

Spec == Init /\ [][Next]_vars

NextRestart == Next \/ Restart

SpecRestart == Init /\ [][NextRestart]_vars

\* a process that finds whatever an earlier one, or somebody else, left
SpecLoad == InitLoad /\ [][Next]_vars

\* the program fed the titles and the assignee of the scenario
NextScenario ==
    \/ loadTasks
    \/ \E line \in MenuInputs : MainA(line)
    \/ \E line \in MenuInputs : MainV(line)
    \/ \E line \in MenuInputs : MainQ(line)
    \/ \E line \in MenuInputs : MainD(line)
    \/ \E line \in MenuInputs : MainDefault(line)
    \/ \E line \in AckInputs : Acknowledge(line)
    \/ \E line \in ScenarioTitles : ReadTitle(line)
    \/ \E line \in ScenarioAssigned : ReadAssigned(line)
    \/ \E line \in DateInputs : AddTaskWrongFormat(line)
    \/ \E line \in DateInputs, now \in Instants, outcome \in WriteOutcomes :
          AddTaskCreate(line, now, outcome)
    \/ \E line \in YesNoInputs : AddAgainYes(line)
    \/ \E line \in YesNoInputs : AddAgainNo(line)
    \/ \E line \in YesNoInputs : AddAgainOther(line)
    \/ \E line \in DeleteInputs : DeleteQuit(line)
    \/ \E line \in DeleteInputs : DeleteInvalid(line)
    \/ \E line \in DeleteInputs : DeleteNotFound(line)
    \/ \E line \in DeleteInputs, outcome \in WriteOutcomes : DeleteFound(line, outcome)

SpecScenario == Init /\ [][NextScenario]_vars

TypeOK ==
    /\ pc \in {"start", "MainMenu", "ListingTasks", "DeletingTask", "Quitting"} \cup AddingPcs
    /\ Len(TasksSlice) <= MaxTasks
    /\ saved \in WriteOutcomes \cup {"none"}
    /\ fails \in 0..MaxFail
    /\ run \in 0..MaxRuns
    /\ maxLen \in 0..MaxTasks
    /\ addedInVisit \in BOOLEAN

(***************************************************************************)
(* Properties.                                                             *)
(***************************************************************************)
\* what the program does with one line, in each of its loops
MainStep(line) ==
    MainA(line) \/ MainV(line) \/ MainQ(line) \/ MainD(line) \/ MainDefault(line)
AddStep(line) ==
    AddTaskWrongFormat(line)
    \/ \E now \in Instants, outcome \in WriteOutcomes : AddTaskCreate(line, now, outcome)
DeleteStep(line) ==
    DeleteQuit(line) \/ DeleteInvalid(line) \/ DeleteNotFound(line)
    \/ \E outcome \in WriteOutcomes : DeleteFound(line, outcome)

Ids(tasks) == {tasks[i].ID : i \in 1..Len(tasks)}
NoLower(s) == \A i \in 1..Len(s) : \A k \in 1..26 : s[i] # LowerCase[k]
StoreUntouched == TasksSlice' = TasksSlice /\ file' = file /\ saved' = "none" /\ fails' = fails

\* C1: no two tasks of the collection have the same id.
C1_LiveIdsUnique ==
    \A i, j \in 1..Len(TasksSlice) : i # j => TasksSlice[i].ID # TasksSlice[j].ID

\* C2: a step that deletes a task removes one element, leaves the others in
\* their order, and leaves no task with the id of the removed one.
C2_DeleteRemovesId ==
    [][(pc = "DeletingTask" /\ saved' # "none") =>
          \E i \in 1..Len(TasksSlice) :
             /\ TasksSlice' = RemoveAt(TasksSlice, i)
             /\ TasksSlice[i].ID \notin Ids(TasksSlice')]_vars

\* C3: a create with a due date that parses makes the collection one longer,
\* keeps the tasks that were there, in order, and puts the new task last, with
\* the id previous length + 1, not completed, and the title and the assignee
\* as read, without lower-case letters.
C3_CreateAppends ==
    [][\A line \in DateInputs :
          (AddStep(line) /\ Parsed[line].ok) =>
             /\ Len(TasksSlice') = Len(TasksSlice) + 1
             /\ SubSeq(TasksSlice', 1, Len(TasksSlice)) = TasksSlice
             /\ LET new == TasksSlice'[Len(TasksSlice')]
                IN  /\ new.ID = Len(TasksSlice) + 1
                    /\ new.Status = FALSE
                    /\ new.Title = taskTitle /\ NoLower(new.Title)
                    /\ new.AssignedTo = taskAssigned /\ NoLower(new.AssignedTo)
                    /\ new.DueDate = DateOf(Parsed[line])]_vars

C3_Witness ==
    /\ pc = "AddAgain" /\ out = "Task added successfully!"
    /\ Len(TasksSlice) = 2
    /\ TasksSlice[2].ID = 2
    /\ TasksSlice[2].Title = <<"A", "\"", "B">>
    /\ TasksSlice[2].AssignedTo = <<"B", "O">>

\* C4: in the delete loop a number that is the id of no task, and a line that
\* is neither a number nor Q, change neither the collection nor the file, make
\* no save, print their message and leave the program in the delete loop.
C4_Rejected(msg) == StoreUntouched /\ pc' = "DeletingTask" /\ out' = msg

C4_AbsentIdRejected ==
    [][\A line \in DeleteInputs :
          (DeleteStep(line) /\ Choice(line) # <<"Q">>) =>
             IF Number[line].ok
             THEN (Number[line].val \notin Ids(TasksSlice)) => C4_Rejected("Task not found!")
             ELSE C4_Rejected("Invalid! Enter a number.")]_vars

C4_Witness ==
    /\ pc = "DeletingTask" /\ out = "Task not found!"
    /\ Len(TasksSlice) = 2 /\ 1 \notin Ids(TasksSlice)

\* C5: a due date that does not parse creates nothing: the collection and the
\* file stay as they are, no save is made, and the add flow starts over at the
\* title.
IsoDate == Line(<<"2","0","2","4","-","1","2","-","2","5">>)

C5_BadDateRejected ==
    [][\A line \in DateInputs :
          (AddStep(line) /\ (~Parsed[line].ok \/ line = IsoDate)) =>
             /\ StoreUntouched
             /\ pc' = "AddTitle"
             /\ out' = "Wrong format! Try again."]_vars

C5_Witness ==
    /\ pc = "AddTitle" /\ out = "Wrong format! Try again."
    /\ Len(TasksSlice) > 0

\* C6: while the program waits for input and no file write has failed, the
\* file holds the encoding of the collection, or there is no file yet and the
\* collection is empty.
AtPrompt == pc \in {"MainMenu", "ListingTasks", "DeletingTask"} \cup AddingPcs

C6_FileHoldsCollection ==
    (AtPrompt /\ fails = 0) =>
        \/ file = JsonFile(Marshal(TasksSlice))
        \/ file = NoFile /\ TasksSlice = <<>>

C6_Witness ==
    /\ pc = "DeletingTask" /\ out = "Task deleted!" /\ fails = 0
    /\ Len(TasksSlice) = 1

\* C7: decoding the encoding of the collection gives the collection back, and
\* a run that has started on the file the previous run wrote from its
\* collection has that collection after loading.
C7_RoundTrip ==
    /\ Unmarshal(Marshal(TasksSlice)) = TasksSlice
    /\ (pc = "MainMenu" /\ prevTasks # <<>> /\ file = JsonFile(Marshal(prevTasks))) =>
          TasksSlice = prevTasks

C7_Witness ==
    /\ run = 1 /\ pc = "MainMenu"
    /\ Len(prevTasks) = 2 /\ TasksSlice = prevTasks
    /\ \E i \in 1..2 : TasksSlice[i].Title # <<>>

\* C8: at the menu, D enters the delete loop exactly when the collection is
\* not empty; with an empty collection D does what an unknown input does: the
\* program stays at the menu and the collection and the file stay as they are.
C8_DeleteOnlyWhenTasks ==
    [][\A line \in MenuInputs :
          (MainStep(line) /\ Choice(line) = <<"D">>) =>
             /\ (pc' = "DeletingTask") <=> (Len(TasksSlice) > 0)
             /\ StoreUntouched
             /\ Len(TasksSlice) = 0 => (pc' = "MainMenu" /\ out' = WrongInput)]_vars

C8_Witness ==
    /\ pc = "DeletingTask" /\ out = "" /\ Len(TasksSlice) = 1

\* C9: the delete loop only prompts with a collection that is not empty, and
\* it is left only for the menu, either on Q or by the deletion that empties
\* the collection.
C9_DeleteLoopExit ==
    [][/\ pc' = "DeletingTask" => Len(TasksSlice') > 0
       /\ (pc = "DeletingTask" /\ pc' # "DeletingTask") =>
             /\ pc' = "MainMenu"
             /\ \/ TasksSlice # <<>> /\ TasksSlice' = <<>> /\ saved' # "none"
                \/ /\ TasksSlice' = TasksSlice
                   /\ \E line \in DeleteInputs : Choice(line) = <<"Q">> /\ DeleteQuit(line)]_vars

C9_Witness ==
    /\ pc = "MainMenu" /\ out = "Task deleted!" /\ TasksSlice = <<>>

\* C10: the program ends only on Q at the menu; an unknown input at the menu
\* leaves it at the menu; after the end nothing changes any more.
C10_QuitOnlyFromMenu ==
    [][/\ pc = "Quitting" => UNCHANGED vars
       /\ (pc # "Quitting" /\ pc' = "Quitting") =>
             \E line \in MenuInputs : Choice(line) = <<"Q">> /\ MainQ(line)
       /\ \A line \in MenuInputs :
             (MainStep(line) /\ Choice(line) \notin {<<"A">>, <<"V">>, <<"D">>, <<"Q">>}) =>
                pc' = "MainMenu"]_vars

C10_Witness ==
    /\ pc = "Quitting" /\ Len(TasksSlice) = 2

\* C11 as claimed: a save whose write fails keeps the mutation in memory, does
\* not end the session and leaves the file with its previous contents.
WriteFailed == saved' \in {"denied", "partial"}

Unparseable(f) == f.kind = "garbage" \/ (f.kind = "json" /\ UnmarshalError(f.data))

C12_LoadStartsEmpty ==
    [][/\ pc = "start" =>
             /\ pc' = "MainMenu"
             /\ (file.kind = "absent" \/ Unparseable(file)) => TasksSlice' = <<>>
       /\ saved' = "ok" => file'.kind = "json"]_vars

\* C13: every task of the collection has a non-empty title.
C13_TitlesNonEmpty == \A i \in 1..Len(TasksSlice) : TasksSlice[i].Title # <<>>

\* C14: the scenario, step by step. Typing "buy milk" gives the title
\* BUY MILK; on the empty collection, the due date "Dec 25, 2024" creates the
\* task with id 1 and that title; with that one task, "walk dog" with the due
\* date "bad-date" is refused and the collection stays as it is; with that one
\* task, deleting 1 empties the collection and returns to the main menu.
BUY_MILK == <<"B","U","Y"," ","M","I","L","K">>
WALK_DOG == <<"W","A","L","K"," ","D","O","G">>
OnlyBuyMilk ==
    /\ Len(TasksSlice) = 1
    /\ TasksSlice[1].ID = 1
    /\ TasksSlice[1].Title = BUY_MILK

C14_Scenario ==
    [][/\ (pc = "AddTitle" /\ ReadTitle(BuyMilk)) => taskTitle' = BUY_MILK
       /\ (pc = "AddAssigned" /\ ReadAssigned(Line(<<>>))) => taskAssigned' = <<>>
       /\ (/\ pc = "AddDueDate" /\ TasksSlice = <<>>
           /\ taskTitle = BUY_MILK /\ taskAssigned = <<>>
           /\ AddStep(Dec25)) =>
             /\ OnlyBuyMilk'
             /\ TasksSlice'[1].AssignedTo = <<>>
             /\ TasksSlice'[1].DueDate = DateOf([y |-> 2024, m |-> 12, d |-> 25])
             /\ out' = "Task added successfully!"
       /\ (/\ pc = "AddDueDate" /\ OnlyBuyMilk
           /\ taskTitle = WALK_DOG /\ taskAssigned = <<>>
           /\ AddStep(BadDateLine)) =>
             /\ TasksSlice' = TasksSlice
             /\ file' = file
             /\ out' = "Wrong format! Try again."
       /\ (pc = "DeletingTask" /\ OnlyBuyMilk /\ DeleteStep(Line(<<"1">>))) =>
             /\ TasksSlice' = <<>>
             /\ out' = "Task deleted!"
             /\ pc' = "MainMenu"]_vars

\* after the refused create of the scenario
C14_Witness ==
    /\ pc = "AddTitle" /\ out = "Wrong format! Try again."
    /\ OnlyBuyMilk /\ maxLen = 1

\* C15: the collection and the file change only in a step that creates a
\* task, at the due date prompt, or deletes one, at the delete prompt; every
\* main menu input, the view and its acknowledgment, the title and assignee
\* prompts and the add-again prompt leave both as they are, and the view
\* always goes back to the main menu.
C15_OnlyCreateAndDeleteChange ==
    [][/\ (TasksSlice' # TasksSlice \/ file' # file \/ saved' # "none") =>
             \/ pc = "AddDueDate" /\ pc' = "AddAgain"
                /\ Len(TasksSlice') = Len(TasksSlice) + 1
             \/ pc = "DeletingTask" /\ out' = "Task deleted!"
                /\ Len(TasksSlice') = Len(TasksSlice) - 1
       /\ pc \in {"MainMenu", "ListingTasks", "AddTitle", "AddAssigned", "AddAgain"}
             => StoreUntouched
       /\ \A line \in MenuInputs :
             (pc = "MainMenu" /\ MainStep(line) /\ Upper[line] = <<"V">>)
                => pc' = "ListingTasks"
       /\ pc = "ListingTasks" => pc' = "MainMenu"]_vars

\* the collection of two tasks on view
C15_Witness ==
    /\ pc = "ListingTasks" /\ saved = "none"
    /\ Len(TasksSlice) = 2
    /\ TasksSlice[1] # TasksSlice[2]

\* C16: in addTask a task is created by, and only by, a due date that parses,
\* one task each time; the add-again prompt follows each creation and only
\* that; there Y starts a new round, N returns to the main menu and any other
\* answer asks again, none of them changing the collection; so addTask is left
\* only for the main menu, only from that prompt, and only after a creation
\* in the same visit.
C16_AddingSequence ==
    [][/\ (pc' = "AddAgain" /\ pc # "AddAgain") =>
             /\ pc = "AddDueDate"
             /\ Len(TasksSlice') = Len(TasksSlice) + 1
             /\ SubSeq(TasksSlice', 1, Len(TasksSlice)) = TasksSlice
       /\ (pc \in AddingPcs /\ TasksSlice' # TasksSlice) =>
             pc = "AddDueDate" /\ pc' = "AddAgain"
       /\ \A line \in YesNoInputs :
             (pc = "AddAgain" /\ (AddAgainYes(line) \/ AddAgainNo(line) \/ AddAgainOther(line)))
                => /\ pc' = IF Upper[line] = <<"Y">> THEN "AddTitle"
                            ELSE IF Upper[line] = <<"N">> THEN "MainMenu"
                            ELSE "AddAgain"
                   /\ StoreUntouched
       /\ (pc \in AddingPcs /\ pc' \notin AddingPcs) =>
             /\ pc = "AddAgain" /\ pc' = "MainMenu"
             /\ addedInVisit]_vars

\* asked again after an answer that is neither Y nor N, two tasks created
C16_Witness ==
    /\ pc = "AddAgain" /\ out = "Respond with Y or N only!"
    /\ addedInVisit /\ Len(TasksSlice) = 2

\* the collection after the step is the one before it without its i-th task
Removed(i) ==
    /\ Len(TasksSlice') = Len(TasksSlice) - 1
    /\ \A j \in 1..Len(TasksSlice') :
          TasksSlice'[j] = IF j < i THEN TasksSlice[j] ELSE TasksSlice[j + 1]

\* C17: a step leaves the collection as it is, or appends one task whose
\* completion flag is false, or removes one task; the tasks that stay keep
\* every field and their order, and no task of the collection is completed.
C17_TasksNeverChange ==
    [][/\ \/ TasksSlice' = TasksSlice
          \/ /\ Len(TasksSlice') = Len(TasksSlice) + 1
             /\ SubSeq(TasksSlice', 1, Len(TasksSlice)) = TasksSlice
             /\ TasksSlice'[Len(TasksSlice')].Status = FALSE
          \/ \E i \in 1..Len(TasksSlice) : Removed(i)
       /\ \A j \in 1..Len(TasksSlice') : TasksSlice'[j].Status = FALSE]_vars

\* the second of two tasks after the first was deleted, with the id it got
C17_Witness ==
    /\ pc = "DeletingTask" /\ out = "Task deleted!" /\ saved = "ok"
    /\ Len(TasksSlice) = 1
    /\ TasksSlice[1].ID = 2 /\ TasksSlice[1].Status = FALSE

\* C18: the ids handed out are 1..maxLen, and a task created while the
\* collection is shorter than it has been gets one of them again.
C18_CreateReusesId ==
    [][(pc = "AddDueDate" /\ pc' = "AddAgain" /\ Len(TasksSlice) < maxLen) =>
          /\ TasksSlice'[Len(TasksSlice')].ID = Len(TasksSlice) + 1
          /\ TasksSlice'[Len(TasksSlice')].ID <= maxLen
          /\ maxLen' = maxLen]_vars

\* a task just created with id 1 after both earlier tasks, one of them with
\* id 1, were deleted
C18_Witness ==
    /\ pc = "AddAgain" /\ out = "Task added successfully!"
    /\ Len(TasksSlice) = 1 /\ TasksSlice[1].ID = 1
    /\ maxLen = 2

\* C19: a number that is the id of some task deletes exactly the first task
\* with that id: the others, a later task with the same id among them, stay
\* in their order.
FirstWith(id) ==
    CHOOSE i \in 1..Len(TasksSlice) :
        /\ TasksSlice[i].ID = id
        /\ \A j \in 1..(i - 1) : TasksSlice[j].ID # id

C19_DeleteRemovesFirstMatch ==
    [][\A line \in DeleteInputs :
          (/\ pc = "DeletingTask" /\ Upper[line] # <<"Q">>
           /\ Number[line].ok /\ Number[line].val \in Ids(TasksSlice)
           /\ DeleteStep(line)) =>
             /\ Removed(FirstWith(Number[line].val))
             /\ out' = "Task deleted!"]_vars

\* of two tasks with id 2 the second is left; the write failed, so the file
\* still holds both
C19_Witness ==
    /\ pc = "DeletingTask" /\ out = "Task deleted!" /\ saved = "denied"
    /\ Len(TasksSlice) = 1 /\ TasksSlice[1].ID = 2
    /\ file.kind = "json" /\ Len(file.data) = 2
    /\ LET before == Unmarshal(file.data)
       IN  /\ before[1].ID = 2 /\ before[2].ID = 2
           /\ before[1] # before[2]
           /\ TasksSlice = <<before[2]>>

\* C20: the task at position p has an id of at least p, and of at most the
\* largest length the collection has had.
C20_IdBounds ==
    \A p \in 1..Len(TasksSlice) :
        /\ TasksSlice[p].ID >= p
        /\ TasksSlice[p].ID <= maxLen

\* two tasks with id 2: the first has an id above its position
C20_Witness ==
    /\ pc = "ListingTasks"
    /\ Len(TasksSlice) = 2
    /\ TasksSlice[1].ID = 2 /\ TasksSlice[2].ID = 2
    /\ maxLen = 2

====
